---------------------------- MODULE Spec2Model ----------------------------
(***************************************************************************)
(* A model of sign_xpi_lib (src/sign_xpi_lib/sign_xpi_lib.py): the entry   *)
(* filter, the manifest sort key, the Section / Manifest / Signature text  *)
(* serialization, and the XPIFile life cycle (construction, make_signed).  *)
(*                                                                         *)
(* Text (Python str) is a sequence of characters, each character a         *)
(* one-character string; a non-ASCII character is written "U+XXXX".  Bytes *)
(* are a sequence of byte tokens: an ASCII byte is written as its          *)
(* character, another byte as "0xNN".                                      *)
(***************************************************************************)
EXTENDS Integers, Sequences, FiniteSets, TLC

(***************************************************************************)
(* Characters                                                              *)
(***************************************************************************)

\* The printable ASCII characters in code point order, 32 .. 126 (the grave
\* accent, code point 96, is written "U+0060").
Ascii ==
  <<" ", "!", "\"", "#", "$", "%", "&", "'", "(", ")", "*", "+", ",", "-",
    ".", "/", "0", "1", "2", "3", "4", "5", "6", "7", "8", "9", ":", ";",
    "<", "=", ">", "?", "@", "A", "B", "C", "D", "E", "F", "G", "H", "I",
    "J", "K", "L", "M", "N", "O", "P", "Q", "R", "S", "T", "U", "V", "W",
    "X", "Y", "Z", "[", "\\", "]", "^", "_", "U+0060", "a", "b", "c", "d", "e",
    "f", "g", "h", "i", "j", "k", "l", "m", "n", "o", "p", "q", "r", "s",
    "t", "u", "v", "w", "x", "y", "z", "{", "|", "}", "~">>

\* Characters outside printable ASCII that the model uses, with their
\* code point, their upper and lower case and their UTF-8 encoding.
Wide ==
  { [c |-> "\n",     cp |-> 10,   up |-> "\n",     lo |-> "\n",     utf8 |-> <<"\n">>],
    [c |-> "U+00C9", cp |-> 201,  up |-> "U+00C9", lo |-> "U+00E9", utf8 |-> <<"0xC3", "0x89">>],
    [c |-> "U+00E9", cp |-> 233,  up |-> "U+00C9", lo |-> "U+00E9", utf8 |-> <<"0xC3", "0xA9">>],
    [c |-> "U+20AC", cp |-> 8364, up |-> "U+20AC", lo |-> "U+20AC", utf8 |-> <<"0xE2", "0x82", "0xAC">>] }

AsciiSet == { Ascii[i] : i \in 1..Len(Ascii) }

WideOf == [ c \in { w.c : w \in Wide } |-> CHOOSE w \in Wide : w.c = c ]

\* ord(c): the code point, by which Python compares strings.
Ord ==
  [ c \in AsciiSet \cup DOMAIN WideOf |->
      IF c \in DOMAIN WideOf THEN WideOf[c].cp
      ELSE 31 + (CHOOSE i \in 1..Len(Ascii) : Ascii[i] = c) ]

\* str.upper() and str.lower() on one character.
UpperChar ==
  [ c \in DOMAIN Ord |->
      IF c \in DOMAIN WideOf THEN WideOf[c].up
      ELSE IF Ord[c] >= 97 /\ Ord[c] <= 122 THEN Ascii[Ord[c] - 32 - 31]
      ELSE c ]

LowerChar ==
  [ c \in DOMAIN Ord |->
      IF c \in DOMAIN WideOf THEN WideOf[c].lo
      ELSE IF Ord[c] >= 65 /\ Ord[c] <= 90 THEN Ascii[Ord[c] + 32 - 31]
      ELSE c ]

Upper(s) == [ i \in 1..Len(s) |-> UpperChar[s[i]] ]

Lower(s) == [ i \in 1..Len(s) |-> LowerChar[s[i]] ]

\* str.encode('utf-8'): an opaque base64 run (see b64encode) is ASCII and
\* stays one token.
EncodeChar(c) == IF c \in DOMAIN WideOf THEN WideOf[c].utf8 ELSE <<c>>

\* The concatenation of a sequence of sequences, by halves.
RECURSIVE Flatten(_)
Flatten(ss) ==
  IF ss = <<>> THEN <<>>
  ELSE IF Len(ss) = 1 THEN ss[1]
  ELSE LET h == Len(ss) \div 2
       IN  Flatten(SubSeq(ss, 1, h)) \o Flatten(SubSeq(ss, h + 1, Len(ss)))

EncodeUtf8(s) == Flatten([ i \in 1..Len(s) |-> EncodeChar(s[i]) ])

\* Python's < on two strings: lexicographic by code point.
RECURSIVE StrLess(_, _)
StrLess(a, b) ==
  IF b = <<>> THEN FALSE
  ELSE IF a = <<>> THEN TRUE
  ELSE IF Ord[Head(a)] # Ord[Head(b)] THEN Ord[Head(a)] < Ord[Head(b)]
  ELSE StrLess(Tail(a), Tail(b))

\* s[lo-1 : hi] of Python, 1-based and inclusive here, clipped to s.
Slice(s, lo, hi) ==
  IF lo > Len(s) \/ hi < lo THEN <<>>
  ELSE SubSeq(s, lo, IF hi > Len(s) THEN Len(s) ELSE hi)

\* str.rfind(c) + 1: the 1-based position of the last c in s, 0 if none.
RFind(s, c) ==
  IF \E i \in 1..Len(s) : s[i] = c
  THEN CHOOSE i \in 1..Len(s) : s[i] = c /\ \A j \in (i+1)..Len(s) : s[j] # c
  ELSE 0

RECURSIVE Join(_, _)
Join(sep, parts) ==
  IF parts = <<>> THEN <<>>
  ELSE IF Len(parts) = 1 THEN parts[1]
  ELSE parts[1] \o sep \o Join(sep, Tail(parts))

(***************************************************************************)
(* ignore_certain_metainf_files                                            *)
(***************************************************************************)

\* fnmatch.fnmatchcase for a pattern of literals and "*".
RECURSIVE fnmatchcase(_, _)
fnmatchcase(name, pat) ==
  IF pat = <<>> THEN name = <<>>
  ELSE IF Head(pat) = "*"
       THEN fnmatchcase(name, Tail(pat))
            \/ (name # <<>> /\ fnmatchcase(Tail(name), pat))
  ELSE name # <<>> /\ Head(name) = Head(pat)
       /\ fnmatchcase(Tail(name), Tail(pat))

ignore ==
  << <<"M", "E", "T", "A", "-", "I", "N", "F", "/", "m", "a", "n", "i", "f", "e", "s", "t", ".", "m", "f">>,
     <<"M", "E", "T", "A", "-", "I", "N", "F", "/", "*", ".", "s", "f">>,
     <<"M", "E", "T", "A", "-", "I", "N", "F", "/", "*", ".", "r", "s", "a">>,
     <<"M", "E", "T", "A", "-", "I", "N", "F", "/", "*", ".", "d", "s", "a">>,
     <<"M", "E", "T", "A", "-", "I", "N", "F", "/", "i", "d", "s", ".", "j", "s", "o", "n">> >>

\* A match in the case the name is written in.
ignore_case_sensitive(filename) ==
  \E g \in 1..Len(ignore) : fnmatchcase(filename, ignore[g])

ignore_certain_metainf_files(filename) ==
  \E g \in 1..Len(ignore) : fnmatchcase(Upper(filename), Upper(ignore[g]))

\* directory_re = [\\/]$
directory_re(filename) ==
  filename # <<>> /\ filename[Len(filename)] \in {"\\", "/"}

(***************************************************************************)
(* file_key and sorted                                                     *)
(***************************************************************************)

\* os.path.split (posixpath): head is everything up to the last "/", with
\* trailing slashes stripped unless it is all slashes.
RECURSIVE RStripSlash(_)
RStripSlash(s) ==
  IF s # <<>> /\ s[Len(s)] = "/" THEN RStripSlash(SubSeq(s, 1, Len(s) - 1))
  ELSE s

PathSplit(p) ==
  LET i    == RFind(p, "/")
      head == Slice(p, 1, i)
      tail == Slice(p, i + 1, Len(p))
  IN  << IF head # <<>> /\ (\E k \in 1..Len(head) : head[k] # "/")
         THEN RStripSlash(head) ELSE head,
         tail >>

Prio1Names == { <<"i", "n", "s", "t", "a", "l", "l", ".", "r", "d", "f">> }

Prio2Names ==
  { <<"c", "h", "r", "o", "m", "e", ".", "m", "a", "n", "i", "f", "e", "s", "t">>,
    <<"i", "c", "o", "n", ".", "p", "n", "g">>,
    <<"i", "c", "o", "n", "6", "4", ".", "p", "n", "g">> }

Prio5Names ==
  { <<"M", "P", "L">>, <<"G", "P", "L">>, <<"L", "G", "P", "L">>,
    <<"C", "O", "P", "Y", "I", "N", "G">>, <<"L", "I", "C", "E", "N", "S", "E">>,
    <<"l", "i", "c", "e", "n", "s", "e", ".", "t", "x", "t">> }

\* A key that keeps the case of the name.
file_key_case_kept(filename) ==
  LET prio == IF filename \in Prio1Names THEN 1
              ELSE IF filename \in Prio2Names THEN 2
              ELSE IF filename \in Prio5Names THEN 5
              ELSE 4
  IN  << prio, PathSplit(filename) >>

\* A key that orders by the whole lowercased path.
file_key_whole_path(filename) ==
  LET prio == IF filename \in Prio1Names THEN 1
              ELSE IF filename \in Prio2Names THEN 2
              ELSE IF filename \in Prio5Names THEN 5
              ELSE 4
  IN  << prio, << <<>>, Lower(filename) >> >>

file_key(filename) ==
  LET prio == IF filename \in Prio1Names THEN 1
              ELSE IF filename \in Prio2Names THEN 2
              ELSE IF filename \in Prio5Names THEN 5
              ELSE 4
  IN  << prio, PathSplit(Lower(filename)) >>

\* Python's < on two keys (prio, (head, tail)): tuples compare
\* lexicographically.
KeyLess(k1, k2) ==
  \/ k1[1] < k2[1]
  \/ /\ k1[1] = k2[1]
     /\ \/ StrLess(k1[2][1], k2[2][1])
        \/ k1[2][1] = k2[2][1] /\ StrLess(k1[2][2], k2[2][2])

\* sorted(zin.filelist, key=zinfo_key): a stable sort; an element goes
\* after every element whose key is not greater than its own.
RECURSIVE InsertByKey(_, _)
InsertByKey(sortedSeq, f) ==
  IF sortedSeq = <<>> THEN <<f>>
  ELSE IF KeyLess(file_key(f.filename), file_key(Head(sortedSeq).filename))
       THEN <<f>> \o sortedSeq
  ELSE <<Head(sortedSeq)>> \o InsertByKey(Tail(sortedSeq), f)

RECURSIVE SortedFilelist(_)
SortedFilelist(filelist) ==
  IF filelist = <<>> THEN <<>>
  ELSE InsertByKey(SortedFilelist(SubSeq(filelist, 1, Len(filelist) - 1)),
                   filelist[Len(filelist)])

(***************************************************************************)
(* _digest, Section, Manifest, Signature                                   *)
(***************************************************************************)

\* hashlib: a digest is an opaque value that determines, and is determined
\* by, the algorithm and the bytes digested.
Hash(algo, data) == <<algo, data>>

_digest(data) == [ algo \in {"md5", "sha1"} |-> Hash(algo, data) ]

\* b64encode(digest).decode('utf-8'): a non-empty run of base64 characters,
\* none of them a line break; kept as one opaque token.
b64encode(digest) == << "b64:" \o ToString(digest) >>

\* order = list(self.digests.keys()); order.sort()
DigestOrder == <<"md5", "sha1">>

\* algo.upper()
AlgoUpper(algo) ==
  IF algo = "md5" THEN <<"M", "D", "5">> ELSE <<"S", "H", "A", "1">>

FoldWidth == 72

\* The while loop of Section.__str__: 72 characters of the name line at a
\* time, a line break and a space between two chunks.
RECURSIVE FoldName(_)
FoldName(name) ==
  IF name = <<>> THEN <<>>
  ELSE LET rest == Slice(name, FoldWidth + 1, Len(name))
       IN  Slice(name, 1, FoldWidth)
           \o (IF rest # <<>> THEN <<"\n", " ">> \o FoldName(rest) ELSE <<>>)

RECURSIVE DigestLines(_, _)
DigestLines(digests, order) ==
  IF order = <<>> THEN <<>>
  ELSE AlgoUpper(Head(order)) \o <<"-", "D", "i", "g", "e", "s", "t", ":", " ">>
       \o b64encode(digests[Head(order)]) \o <<"\n">>
       \o DigestLines(digests, Tail(order))

\* Section.__str__
SectionStr(section) ==
  FoldName(<<"N", "a", "m", "e", ":", " ">> \o section.name)
  \o <<"\n">>
  \o <<"D", "i", "g", "e", "s", "t", "-", "A", "l", "g", "o", "r", "i", "t", "h", "m", "s", ":", " ">>
  \o Join(<<" ">>, [ i \in 1..Len(DigestOrder) |-> AlgoUpper(DigestOrder[i]) ])
  \o <<"\n">>
  \o DigestLines(section.digests, DigestOrder)

\* bytes.decode('utf-8'): every byte that is not a continuation byte
\* starts a character.
ContinuationBytes ==
  UNION { { w.utf8[k] : k \in 2..Len(w.utf8) } : w \in Wide }

DecodeAt(b, i) ==
  LET ws == { w \in Wide : /\ i + Len(w.utf8) - 1 <= Len(b)
                           /\ SubSeq(b, i, i + Len(w.utf8) - 1) = w.utf8 }
  IN  IF ws = {} THEN b[i] ELSE (CHOOSE w \in ws : TRUE).c

DecodeUtf8(b) ==
  LET starts == SelectSeq([ i \in 1..Len(b) |-> i ],
                          LAMBDA i : b[i] \notin ContinuationBytes)
  IN  [ k \in 1..Len(starts) |-> DecodeAt(b, starts[k]) ]

\* Manifest.header: "{}-Version: {}".format(type(self).__name__.title(),
\* self.version).encode('utf-8')
ManifestHeader(typeName) ==
  EncodeUtf8(typeName \o <<"-", "V", "e", "r", "s", "i", "o", "n", ":", " ">>
             \o <<"1", ".", "0">>)

\* Manifest.body
ManifestBody(sections) ==
  Join(<<"\n">>, [ i \in 1..Len(sections) |-> EncodeUtf8(SectionStr(sections[i])) ])

\* A __str__ without the last, empty segment.
ManifestStrNoLastSegment(sections) ==
  Join(<<"\n">>,
       << DecodeUtf8(ManifestHeader(<<"M", "a", "n", "i", "f", "e", "s", "t">>)),
          <<>>,
          DecodeUtf8(ManifestBody(sections)) >>)

\* Manifest.__str__
ManifestStr(sections) ==
  Join(<<"\n">>,
       << DecodeUtf8(ManifestHeader(<<"M", "a", "n", "i", "f", "e", "s", "t">>)),
          <<>>,
          DecodeUtf8(ManifestBody(sections)),
          <<>> >>)

\* Signature.digest_manifest
DigestManifestLines(digest_manifests) ==
  [ i \in 1..Len(DigestOrder) |->
      EncodeUtf8(AlgoUpper(DigestOrder[i])
                 \o <<"-", "D", "i", "g", "e", "s", "t", "-", "M", "a", "n", "i", "f", "e", "s", "t", ":", " ">>
                 \o b64encode(digest_manifests[DigestOrder[i]])) ]

\* Signature.header
SignatureHeader(sig) ==
  Join(<<"\n">>,
       <<ManifestHeader(<<"S", "i", "g", "n", "a", "t", "u", "r", "e">>)>>
       \o DigestManifestLines(sig.digest_manifests)
       \o << <<>> >>)

\* Signature.__str__
SignatureStr(sig) == DecodeUtf8(SignatureHeader(sig)) \o <<"\n">>

(***************************************************************************)
(* The file system and the XPIFile life cycle                              *)
(***************************************************************************)

VARIABLES
  fs,        \* path -> file: [exists, entries (a ZIP's entry list), raw]
  obj,       \* the XPIFile: [inpath, ids, _digests]
  pc,        \* where the caller / the running method is
  handles,   \* the open ZipFile handles: [path, mode]
  exc,       \* the exception raised, "none" if none
  args,      \* make_signed's arguments; sigpath_arg is sigpath as passed,
             \* sigpath the local variable once normalized
  idx,       \* make_signed's position in zin.infolist()
  knames,    \* file_key on a triple of names: the names ...
  kkeys,     \* ... and their keys
  fsection,  \* Section.__str__ on one Section: the Section ...
  ftext      \* ... and its text

vars == <<fs, obj, pc, handles, exc, args, idx, knames, kkeys, fsection, ftext>>

xpiVars == <<fs, obj, pc, handles, exc, args, idx>>

keyVars == <<knames, kkeys>>

foldVars == <<fsection, ftext>>

\* The most entries a source archive holds.
MaxEntries == 2

InPath == "in.xpi"

OutPath == "out.xpi"

\* The entry names a source archive is built from: one name per priority
\* bucket, two names that differ in case only, a nested file, a directory
\* entry, reserved names in several casings and an unreserved META-INF file.
Pool ==
  { <<"i", "n", "s", "t", "a", "l", "l", ".", "r", "d", "f">>,
    <<"i", "c", "o", "n", ".", "p", "n", "g">>,
    <<"L", "I", "C", "E", "N", "S", "E">>,
    <<"b", ".", "j", "s">>,
    <<"B", ".", "j", "s">>,
    <<"a", "/", "c", ".", "j", "s">>,
    <<"a", "/">>,
    <<"m", "e", "t", "a", "-", "i", "n", "f", "/", "m", "a", "n", "i", "f", "e", "s", "t", ".", "m", "f">>,
    <<"M", "E", "T", "A", "-", "I", "N", "F", "/", "x", ".", "S", "F">>,
    <<"M", "E", "T", "A", "-", "I", "N", "F", "/", "i", "d", "s", ".", "j", "s", "o", "n">>,
    <<"M", "E", "T", "A", "-", "I", "N", "F", "/", "x", ".", "t", "x", "t">> }

\* The bytes of the source archive's i-th entry: "d0", "d1", ...
EntryData(i) == <<"d", Ascii[16 + i]>>

\* The ids argument: None, b"" or b"{}".
None == [some |-> FALSE, val |-> <<>>]

Some(bytes) == [some |-> TRUE, val |-> bytes]

IdsInputs == { None, Some(<<>>), Some(<<"{", "}">>) }

\* Python's truth value of ids.
Truthy(ids) == ids.some /\ ids.val # <<>>

SigpathInputs ==
  { <<"m", "o", "z", "i", "l", "l", "a", ".", "r", "s", "a">>,
    <<"s", "i", "g", "s", "/", "z", "i", "g", "b", "e", "r", "t", ".", "s", "f">> }

OutpathInputs == { "", InPath, OutPath }

SignatureBytes == <<"p", "k", "c", "s", "7">>

SignedManifestBytes == <<"s", "i", "g", "n", "e", "d">>

NoFile == [exists |-> FALSE, entries |-> <<>>, raw |-> <<>>]

ZipOf(entries) == [exists |-> TRUE, entries |-> entries, raw |-> <<>>]

RawFile(bytes) == [exists |-> TRUE, entries |-> <<>>, raw |-> bytes]

NoArgs ==
  [outpath |-> "", sigpath_arg |-> <<>>, sigpath |-> <<>>,
   signed_manifest |-> <<>>, signature |-> <<>>]

IdleXpi ==
  /\ fs = [p \in {InPath, OutPath} |-> NoFile]
  /\ obj = [inpath |-> "", ids |-> None, _digests |-> <<>>]
  /\ pc = "idle" /\ handles = {} /\ exc = "none" /\ args = NoArgs /\ idx = 0

IdleKey == knames = <<>> /\ kkeys = <<>>

IdleFold == fsection = [name |-> <<>>, digests |-> _digest(<<>>)] /\ ftext = <<>>

\* The source archives: every entry list of at most MaxEntries names.
SourceArchives ==
  { ZipOf([ i \in 1..Len(names) |->
              [filename |-> names[i], data |-> EntryData(i), zinfo |-> i] ])
    : names \in UNION { [1..n -> Pool] : n \in 0..MaxEntries } }

AlreadyThere ==
  RawFile(<<"I", " ", "a", "l", "r", "e", "a", "d", "y", " ", "e", "x", "i", "s", "t">>)

\* A source archive, or no file at InPath; a file at OutPath or none.
Init ==
  /\ \E src \in SourceArchives \cup {NoFile}, out \in {NoFile, AlreadyThere} :
       fs = [p \in {InPath, OutPath} |-> IF p = InPath THEN src ELSE out]
  /\ obj = [inpath |-> "", ids |-> None, _digests |-> <<>>]
  /\ pc = "new" /\ handles = {} /\ exc = "none" /\ args = NoArgs /\ idx = 0
  /\ IdleKey /\ IdleFold

\* os.path.exists
PathExists(files, path) == path \in DOMAIN files /\ files[path].exists

\* ZipFile.read(name): the last entry of that name is the one a name finds.
ZipRead(entries, name) ==
  entries[CHOOSE i \in 1..Len(entries) :
            /\ entries[i].filename = name
            /\ \A j \in (i+1)..Len(entries) : entries[j].filename # name].data

ReadHandle(path) == [path |-> path, mode |-> "r"]

WriteHandle(path) == [path |-> path, mode |-> "w"]

(***************************************************************************)
(* XPIFile.__init__                                                        *)
(***************************************************************************)

Section(name, digests) == [name |-> name, digests |-> digests]

IdsJson == <<"M", "E", "T", "A", "-", "I", "N", "F", "/", "i", "d", "s", ".", "j", "s", "o", "n">>

\* The test of the loop body: directories and reserved names are skipped.
Skipped(f) == directory_re(f.filename) \/ ignore_certain_metainf_files(f.filename)

\* A loop that skips directories only.
KeptUnlessDirectory(f) == ~directory_re(f.filename)

Kept(f) == ~Skipped(f)

\* if ids: mksection(ids, 'META-INF/ids.json')
IdsSections(ids) ==
  IF Truthy(ids) THEN <<Section(IdsJson, _digest(ids.val))>> ELSE <<>>

\* The body of the with block: one Section per entry kept, in sorted
\* order, then the ids Section.
BuildDigests(entries, ids) ==
  LET kept == SelectSeq(SortedFilelist(entries), Kept)
  IN  [ i \in 1..Len(kept) |->
          Section(kept[i].filename, _digest(ZipRead(entries, kept[i].filename))) ]
      \o IdsSections(ids)

\* XPIFile(path, ids): the fields are set, then ZipFile(self.inpath, 'r')
\* opens the archive or raises.
InitOpen ==
  /\ pc = "new"
  /\ \E ids \in IdsInputs :
       obj' = [inpath |-> InPath, ids |-> ids, _digests |-> <<>>]
  /\ IF PathExists(fs, InPath)
     THEN /\ handles' = handles \cup {ReadHandle(InPath)}
          /\ pc' = "init_read" /\ exc' = exc
     ELSE /\ handles' = handles
          /\ pc' = "raised" /\ exc' = "FileNotFoundError"
  /\ UNCHANGED <<fs, args, idx, keyVars, foldVars>>

InitBuild ==
  /\ pc = "init_read"
  /\ obj' = [obj EXCEPT !._digests = BuildDigests(fs[obj.inpath].entries, obj.ids)]
  /\ pc' = "init_close"
  /\ UNCHANGED <<fs, handles, exc, args, idx, keyVars, foldVars>>

\* zin.read raises on an entry it cannot decompress.
InitReadFails ==
  /\ pc = "init_read"
  /\ exc' = "BadZipFile"
  /\ pc' = "init_close"
  /\ UNCHANGED <<fs, obj, handles, args, idx, keyVars, foldVars>>

\* A block that releases the handle only when it is left by its end.
InitCloseOnSuccessOnly ==
  /\ pc = "init_close"
  /\ handles' = IF exc = "none" THEN handles \ {ReadHandle(obj.inpath)} ELSE handles
  /\ pc' = IF exc = "none" THEN "constructed" ELSE "raised"
  /\ UNCHANGED <<fs, obj, exc, args, idx, keyVars, foldVars>>

\* The with block is left, by its end or by the exception.
InitClose ==
  /\ pc = "init_close"
  /\ handles' = handles \ {ReadHandle(obj.inpath)}
  /\ pc' = IF exc = "none" THEN "constructed" ELSE "raised"
  /\ UNCHANGED <<fs, obj, exc, args, idx, keyVars, foldVars>>

\* XPIFile.manifest
Manifest(self) == self._digests

\* XPIFile._sign
_sign(item) == Section(item.name, _digest(EncodeUtf8(SectionStr(item))))

\* XPIFile.signatures
Signatures(self) ==
  [ sections |-> [ i \in 1..Len(self._digests) |-> _sign(self._digests[i]) ],
    digest_manifests |-> _digest(EncodeUtf8(ManifestStr(Manifest(self)))) ]

\* XPIFile.signature
SignatureOf(self) == SignatureHeader(Signatures(self)) \o <<"\n">>

(***************************************************************************)
(* XPIFile.make_signed                                                     *)
(***************************************************************************)

\* sys.version_info >= (3, 5): the module uses FileExistsError and
\* functools.lru_cache, so it runs on Python 3 and the mode is 'x'.
ZIPFILE_WRITE_MODE == "x"

\* os.path.basename
Basename(p) == PathSplit(p)[2]

\* os.path.splitext(p)[0], p without a "/": the last dot splits, unless
\* only dots come before it.
SplitextRoot(p) ==
  LET dot == RFind(p, ".")
  IN  IF dot > 0 /\ (\E k \in 1..(dot - 1) : p[k] # ".")
      THEN SubSeq(p, 1, dot - 1)
      ELSE p

\* sigpath = os.path.splitext(os.path.basename(sigpath))[0]
\* sigpath = os.path.join('META-INF', sigpath)
NormalizeSigpath(sigpath) ==
  <<"M", "E", "T", "A", "-", "I", "N", "F">> \o <<"/">> \o SplitextRoot(Basename(sigpath))

\* A writestr that puts the new entry first.
WriteStrFirst(files, path, name, data, zinfo) ==
  [files EXCEPT ![path].entries =
     <<[filename |-> name, data |-> data, zinfo |-> zinfo]>> \o @]

\* zout.writestr(name, data): a new entry at the end of the archive; zinfo
\* is the source entry whose ZipInfo was passed, 0 for a name.
WriteStr(files, path, name, data, zinfo) ==
  [files EXCEPT ![path].entries =
     Append(@, [filename |-> name, data |-> data, zinfo |-> zinfo])]

\* A test that finds no path.
OutpathExistsNever(files, outpath) == FALSE

\* if os.path.exists(outpath): raise FileExistsError
OutpathExists(files, outpath) == PathExists(files, outpath)

\* The call and the two tests of the arguments.
MakeSignedCall ==
  /\ pc = "constructed"
  /\ \E outpath \in OutpathInputs, sigpath \in SigpathInputs :
       /\ args' = [outpath |-> outpath,
                   sigpath_arg |-> sigpath,
                   sigpath |-> NormalizeSigpath(sigpath),
                   signed_manifest |-> SignedManifestBytes,
                   signature |-> SignatureBytes]
       /\ IF outpath = ""
          THEN pc' = "raised" /\ exc' = "IOError"
          ELSE IF OutpathExists(fs, outpath)
          THEN pc' = "raised" /\ exc' = "FileExistsError"
          ELSE pc' = "ms_open_zin" /\ exc' = exc
  /\ UNCHANGED <<fs, obj, handles, idx, keyVars, foldVars>>

\* with ZipFile(self.inpath, 'r') as zin
OpenZin ==
  /\ pc = "ms_open_zin"
  /\ IF PathExists(fs, obj.inpath)
     THEN /\ handles' = handles \cup {ReadHandle(obj.inpath)}
          /\ pc' = "ms_open_zout" /\ exc' = exc
     ELSE /\ handles' = handles
          /\ pc' = "raised" /\ exc' = "FileNotFoundError"
  /\ UNCHANGED <<fs, obj, args, idx, keyVars, foldVars>>

\* with ZipFile(outpath, ZIPFILE_WRITE_MODE, ZIP_DEFLATED) as zout: mode 'x'
\* refuses a path that exists, mode 'w' truncates it.
OpenZout ==
  /\ pc = "ms_open_zout"
  /\ IF ZIPFILE_WRITE_MODE = "x" /\ PathExists(fs, args.outpath)
     THEN /\ fs' = fs /\ handles' = handles
          /\ pc' = "ms_close_zin" /\ exc' = "FileExistsError"
     ELSE /\ fs' = [fs EXCEPT ![args.outpath] = ZipOf(<<>>)]
          /\ handles' = handles \cup {WriteHandle(args.outpath)}
          /\ pc' = "ms_rsa" /\ exc' = exc
  /\ UNCHANGED <<obj, args, idx, keyVars, foldVars>>

\* zout.writestr("{}.rsa".format(sigpath), signature)
WriteRsa ==
  /\ pc = "ms_rsa"
  /\ fs' = WriteStr(fs, args.outpath, args.sigpath \o <<".", "r", "s", "a">>,
                    args.signature, 0)
  /\ idx' = 1
  /\ pc' = "ms_copy"
  /\ UNCHANGED <<obj, handles, exc, args, keyVars, foldVars>>

\* One turn of for f in zin.infolist(), or its end.
CopyEntry ==
  /\ pc = "ms_copy"
  /\ LET infolist == fs[obj.inpath].entries
     IN  IF idx > Len(infolist)
         THEN fs' = fs /\ idx' = idx /\ pc' = "ms_manifest"
         ELSE /\ fs' = IF ignore_certain_metainf_files(infolist[idx].filename)
                       THEN fs
                       ELSE WriteStr(fs, args.outpath, infolist[idx].filename,
                                     ZipRead(infolist, infolist[idx].filename),
                                     infolist[idx].zinfo)
              /\ idx' = idx + 1
              /\ pc' = pc
  /\ UNCHANGED <<obj, handles, exc, args, keyVars, foldVars>>

\* zout.writestr("META-INF/manifest.mf", str(self.manifest))
WriteManifest ==
  /\ pc = "ms_manifest"
  /\ fs' = WriteStr(fs, args.outpath,
                    <<"M", "E", "T", "A", "-", "I", "N", "F", "/", "m", "a", "n", "i", "f", "e", "s", "t", ".", "m", "f">>,
                    EncodeUtf8(ManifestStr(Manifest(obj))), 0)
  /\ pc' = "ms_sf"
  /\ UNCHANGED <<obj, handles, exc, args, idx, keyVars, foldVars>>

\* zout.writestr("{}.sf".format(sigpath), signed_manifest)
WriteSf ==
  /\ pc = "ms_sf"
  /\ fs' = WriteStr(fs, args.outpath, args.sigpath \o <<".", "s", "f">>,
                    args.signed_manifest, 0)
  /\ pc' = "ms_ids"
  /\ UNCHANGED <<obj, handles, exc, args, idx, keyVars, foldVars>>

\* if self.ids is not None: zout.writestr('META-INF/ids.json', self.ids)
WriteIds ==
  /\ pc = "ms_ids"
  /\ fs' = IF obj.ids # None
           THEN WriteStr(fs, args.outpath, IdsJson, obj.ids.val, 0)
           ELSE fs
  /\ pc' = "ms_close_zout"
  /\ UNCHANGED <<obj, handles, exc, args, idx, keyVars, foldVars>>

\* In a turn of the loop zin.read or zout.writestr raises (a damaged entry,
\* a full disk): the with blocks are left by the exception.
CopyFails ==
  /\ pc = "ms_copy" /\ idx <= Len(fs[obj.inpath].entries)
  /\ exc' = "OSError"
  /\ pc' = "ms_close_zout"
  /\ UNCHANGED <<fs, obj, handles, args, idx, keyVars, foldVars>>

\* The inner with block is left.
CloseZout ==
  /\ pc = "ms_close_zout"
  /\ handles' = handles \ {WriteHandle(args.outpath)}
  /\ pc' = "ms_close_zin"
  /\ UNCHANGED <<fs, obj, exc, args, idx, keyVars, foldVars>>

\* The outer with block is left; make_signed returns or the exception
\* reaches the caller.
CloseZin ==
  /\ pc = "ms_close_zin"
  /\ handles' = handles \ {ReadHandle(obj.inpath)}
  /\ pc' = IF exc = "none" THEN "returned" ELSE "raised"
  /\ UNCHANGED <<fs, obj, exc, args, idx, keyVars, foldVars>>

Next ==
  \/ InitOpen \/ InitBuild \/ InitReadFails \/ InitClose
  \/ MakeSignedCall \/ OpenZin \/ OpenZout
  \/ WriteRsa \/ CopyEntry \/ WriteManifest \/ WriteSf \/ WriteIds
  \/ CopyFails \/ CloseZout \/ CloseZin

Spec == Init /\ [][Next]_vars

(***************************************************************************)
(* file_key on its own: three names and their keys                         *)
(***************************************************************************)

\* The names file_key is applied to: the archive names, and a directory
\* in another case, a doubled separator, further special names and special
\* names in another case.
KeyPool ==
  Pool \cup
  { <<"A", "/", "c", ".", "j", "s">>,
    <<"a", "/", "/", "c", ".", "j", "s">>,
    <<"i", "c", "o", "n", "6", "4", ".", "p", "n", "g">>,
    <<"l", "i", "c", "e", "n", "s", "e", ".", "t", "x", "t">>,
    <<"l", "i", "c", "e", "n", "s", "e", ".", "T", "X", "T">>,
    <<"a", "/", "b", ".", "j", "s">>,
    <<"I", "n", "s", "t", "a", "l", "l", ".", "r", "d", "f">> }

InitKey ==
  /\ knames \in [1..3 -> KeyPool]
  /\ kkeys = <<>>
  /\ IdleXpi /\ IdleFold

\* zinfo_key on each of the three names.
KeyApply ==
  /\ kkeys = <<>>
  /\ kkeys' = [ i \in 1..3 |-> file_key(knames[i]) ]
  /\ UNCHANGED <<knames, xpiVars, foldVars>>

NextKey == KeyApply

SpecKey == InitKey /\ [][NextKey]_vars

(***************************************************************************)
(* Section.__str__ on its own: one Section and its text                    *)
(***************************************************************************)

\* The longest entry name serialized.
MaxNameLen == 150

\* The characters a name is filled with: ASCII only, two-byte characters
\* only, a three-byte character first, and one-, two- and three-byte
\* characters in turn.
FillChar(fill, i) ==
  IF fill = "ascii" THEN "a"
  ELSE IF fill = "two" THEN "U+00E9"
  ELSE IF fill = "lead" THEN (IF i = 1 THEN "U+20AC" ELSE "a")
  ELSE <<"a", "U+00E9", "U+20AC">>[(i % 3) + 1]

FoldNames ==
  { [ i \in 1..n |-> FillChar(fill, i) ]
    : n \in 0..MaxNameLen, fill \in {"ascii", "two", "lead", "mixed"} }

InitFold ==
  /\ fsection \in { Section(name, _digest(<<"x">>)) : name \in FoldNames }
  /\ ftext = <<>>
  /\ IdleXpi /\ IdleKey

\* str(section)
FoldApply ==
  /\ ftext = <<>>
  /\ ftext' = SectionStr(fsection)
  /\ UNCHANGED <<fsection, xpiVars, keyVars>>

NextFold == FoldApply

SpecFold == InitFold /\ [][NextFold]_vars

(***************************************************************************)
(* Properties                                                              *)
(***************************************************************************)

StartsWith(s, prefix) ==
  Len(s) >= Len(prefix) /\ SubSeq(s, 1, Len(prefix)) = prefix

EndsWith(s, suffix) ==
  Len(s) >= Len(suffix) /\ SubSeq(s, Len(s) - Len(suffix) + 1, Len(s)) = suffix

\* A name that matches a reserved pattern under any letter-casing.
ReservedName(n) ==
  LET u == Upper(n)
  IN  \/ u = <<"M", "E", "T", "A", "-", "I", "N", "F", "/", "M", "A", "N", "I", "F", "E", "S", "T", ".", "M", "F">>
      \/ u = <<"M", "E", "T", "A", "-", "I", "N", "F", "/", "I", "D", "S", ".", "J", "S", "O", "N">>
      \/ /\ StartsWith(u, <<"M", "E", "T", "A", "-", "I", "N", "F", "/">>)
         /\ \E ext \in { <<".", "S", "F">>, <<".", "R", "S", "A">>, <<".", "D", "S", "A">> } :
              EndsWith(u, ext) /\ Len(u) >= Len(ext) + 9

Filenames(entries) == [ i \in 1..Len(entries) |-> entries[i].filename ]

SourceEntries == fs[InPath].entries

OutEntries == fs[OutPath].entries

\* The normalized base the output's signature entries are named by.
ExpectedBase(sigpath_arg) ==
  IF sigpath_arg = <<"m", "o", "z", "i", "l", "l", "a", ".", "r", "s", "a">>
  THEN <<"M", "E", "T", "A", "-", "I", "N", "F", "/", "m", "o", "z", "i", "l", "l", "a">>
  ELSE <<"M", "E", "T", "A", "-", "I", "N", "F", "/", "z", "i", "g", "b", "e", "r", "t">>

NotReservedEntry(f) == ~ReservedName(f.filename)

\* C1: after a successful make_signed the output archive holds, in this
\* order, <base>.rsa with the signature bytes, every source entry whose
\* name is not reserved in the source's order, META-INF/manifest.mf,
\* <base>.sf with signed_manifest, and META-INF/ids.json if ids was given.
C1_WriteOrder ==
  pc = "returned" =>
    LET base   == ExpectedBase(args.sigpath_arg)
        copied == SelectSeq(SourceEntries, NotReservedEntry)
        n      == Len(copied)
    IN  /\ Filenames(OutEntries) =
             << base \o <<".", "r", "s", "a">> >>
             \o Filenames(copied)
             \o << <<"M", "E", "T", "A", "-", "I", "N", "F", "/", "m", "a", "n", "i", "f", "e", "s", "t", ".", "m", "f">>,
                   base \o <<".", "s", "f">> >>
             \o (IF obj.ids.some THEN << <<"M", "E", "T", "A", "-", "I", "N", "F", "/", "i", "d", "s", ".", "j", "s", "o", "n">> >> ELSE <<>>)
        /\ OutEntries[1].data = SignatureBytes /\ OutEntries[1].zinfo = 0
        /\ \A k \in 1..n : OutEntries[k + 1].zinfo = copied[k].zinfo
        /\ OutEntries[n + 3].data = SignedManifestBytes

\* C1 witness: a signed archive of a source whose two entries are held in
\* the reverse of their sort order, with ids given and the base name taken
\* out of a directory.
C1_Witness ==
  /\ pc = "returned"
  /\ Filenames(SourceEntries) = << <<"L", "I", "C", "E", "N", "S", "E">>, <<"i", "n", "s", "t", "a", "l", "l", ".", "r", "d", "f">> >>
  /\ obj.ids.some
  /\ args.sigpath_arg = <<"s", "i", "g", "s", "/", "z", "i", "g", "b", "e", "r", "t", ".", "s", "f">>
  /\ Len(OutEntries) = 6

\* C2: a make_signed call whose output path exists raises FileExistsError
\* at once, with the file system as it was and no handle opened, and
\* nothing changes after the exception.
C2_NoOverwrite ==
  [][ /\ (pc = "constructed" /\ pc' # pc /\ args'.outpath # ""
            /\ PathExists(fs, args'.outpath))
         => (pc' = "raised" /\ exc' = "FileExistsError"
               /\ fs' = fs /\ handles' = {})
      /\ (pc = "raised") => (fs' = fs) ]_vars

\* C2 witness: make_signed has raised FileExistsError for the output path
\* that held a file, and the file holds what it held.
C2_Witness ==
  /\ pc = "raised" /\ exc = "FileExistsError"
  /\ args.outpath = OutPath
  /\ fs[OutPath] = AlreadyThere
  /\ Len(obj._digests) > 0

\* C3: no Section of the Manifest is derived from a source entry with a
\* reserved name (the one Section that may carry a reserved name is the
\* synthetic last one), and no entry of the output archive is a copy of
\* such an entry.
C3_ReservedExcluded ==
  /\ \A k \in 1..Len(obj._digests) :
       ReservedName(obj._digests[k].name) =>
         /\ k = Len(obj._digests)
         /\ obj._digests[k].name = IdsJson
         /\ obj.ids.some
         /\ obj._digests[k].digests = _digest(obj.ids.val)
  /\ \A k \in 1..Len(OutEntries) :
       OutEntries[k].zinfo # 0 =>
         ~ReservedName(SourceEntries[OutEntries[k].zinfo].filename)

\* C3 witness: a signed archive of a source that holds the manifest name in
\* lower case beside a file that is kept.
C3_Witness ==
  /\ pc = "returned"
  /\ Filenames(SourceEntries) =
       << <<"m", "e", "t", "a", "-", "i", "n", "f", "/", "m", "a", "n", "i", "f", "e", "s", "t", ".", "m", "f">>, <<"b", ".", "j", "s">> >>
  /\ Len(obj._digests) = 1
  /\ Len(OutEntries) = 4

\* The Sections derived from archive entries: all of them but the ids
\* Section that ends the list.
RealSections ==
  IF Truthy(obj.ids) /\ Len(obj._digests) > 0
  THEN SubSeq(obj._digests, 1, Len(obj._digests) - 1)
  ELSE obj._digests

\* C4: with an ids payload supplied, whatever its bytes, the Manifest's
\* last Section is META-INF/ids.json and digests the payload, after every
\* Section of an archive entry; with none supplied no Section has that name.
C4_IdsSection ==
  pc = "constructed" =>
    LET secs == Manifest(obj)
    IN  IF obj.ids.some
        THEN /\ Len(secs) > 0
             /\ secs[Len(secs)] = Section(IdsJson, _digest(obj.ids.val))
             /\ \A k \in 1..(Len(secs) - 1) : secs[k].name # IdsJson
        ELSE \A k \in 1..Len(secs) : secs[k].name # IdsJson

\* The priority bucket of a name.
Bucket(n) ==
  IF n = <<"i", "n", "s", "t", "a", "l", "l", ".", "r", "d", "f">> THEN 1
  ELSE IF n \in { <<"c", "h", "r", "o", "m", "e", ".", "m", "a", "n", "i", "f", "e", "s", "t">>,
                  <<"i", "c", "o", "n", ".", "p", "n", "g">>,
                  <<"i", "c", "o", "n", "6", "4", ".", "p", "n", "g">> } THEN 2
  ELSE IF n \in { <<"M", "P", "L">>,
                  <<"G", "P", "L">>,
                  <<"L", "G", "P", "L">>,
                  <<"C", "O", "P", "Y", "I", "N", "G">>,
                  <<"L", "I", "C", "E", "N", "S", "E">>,
                  <<"l", "i", "c", "e", "n", "s", "e", ".", "t", "x", "t">> } THEN 5
  ELSE 4

\* A name at the archive root has no separator.
AtRoot(n) == \A i \in 1..Len(n) : n[i] # "/"

\* The directory and the base name of a name, case folded.
FoldedDir(n) == LET l == Lower(n) IN RStripSlash(Slice(l, 1, RFind(l, "/")))

FoldedBase(n) == LET l == Lower(n) IN Slice(l, RFind(l, "/") + 1, Len(l))

TrailingBreaks(text) ==
  LET ks == { k \in 0..Len(text) :
                \A i \in (Len(text) - k + 1)..Len(text) : text[i] = "\n" }
  IN  CHOOSE k \in ks : \A m \in ks : m <= k

\* C7 as stated: the Manifest text ends with exactly two line breaks, also
\* when the Manifest has no Section.
C7_ExactlyTwoBreaks ==
  pc = "constructed" => TrailingBreaks(ManifestStr(Manifest(obj))) = 2

\* C7 as amended: the Manifest text ends with exactly two line breaks when
\* the Manifest has a Section, and with exactly three when it has none.
C7_TrailingBreaks ==
  pc = "constructed" =>
    TrailingBreaks(ManifestStr(Manifest(obj))) =
      IF Len(Manifest(obj)) = 0 THEN 3 ELSE 2

\* C7 witness: the Manifest of an archive that holds a directory and a
\* reserved name only, built without ids, has no Section.
C7_Witness ==
  /\ pc = "constructed"
  /\ Len(SourceEntries) = 2
  /\ ~obj.ids.some
  /\ Manifest(obj) = <<>>

\* How many elements of a sequence of Sections or entries carry a name.
SectionsNamed(secs, n) == Cardinality({ k \in 1..Len(secs) : secs[k].name = n })

\* A source entry that is neither a directory nor reserved.
Qualifying(n) ==
  ~ReservedName(n) /\ ~(n # <<>> /\ n[Len(n)] \in {"/", "\\"})

EntriesNamed(entries, n) ==
  Cardinality({ k \in 1..Len(entries) : entries[k].filename = n })

\* C9 as stated: no two Sections of the Manifest, or of the Signature,
\* carry the same name.
C9_UniqueNames ==
  pc = "constructed" =>
    /\ \A i, j \in 1..Len(Manifest(obj)) :
         i # j => Manifest(obj)[i].name # Manifest(obj)[j].name
    /\ \A i, j \in 1..Len(Signatures(obj).sections) :
         i # j => Signatures(obj).sections[i].name # Signatures(obj).sections[j].name

\* C9 as amended: the Manifest and the Signature carry one Section for
\* each qualifying entry of the source entry list, so as many Sections of
\* a name as entries of that name, and besides them only the ids Section,
\* the one Section named META-INF/ids.json.
C9_OneSectionPerEntry ==
  pc = "constructed" =>
    \A secs \in { Manifest(obj), Signatures(obj).sections } :
      /\ \A n \in Pool :
           SectionsNamed(secs, n) =
             IF n = IdsJson THEN (IF Truthy(obj.ids) THEN 1 ELSE 0)
             ELSE IF Qualifying(n) THEN EntriesNamed(SourceEntries, n)
             ELSE 0
      /\ \A k \in 1..Len(secs) : secs[k].name \in Pool

\* C9 witness: the archive holds one qualifying name twice and ids is
\* given; the Manifest holds the name twice and the ids Section once.
C9_Witness ==
  /\ pc = "constructed"
  /\ \E n \in Pool : Qualifying(n) /\ EntriesNamed(SourceEntries, n) = 2
                     /\ SectionsNamed(Manifest(obj), n) = 2
  /\ Truthy(obj.ids)
  /\ Len(Manifest(obj)) = 3

\* C10 as stated: a read handle and a write handle are never open
\* together, and none is open once the call is over.
C10_NeverBothOpen ==
  /\ ~(\E r, w \in handles : r.mode = "r" /\ w.mode = "w")
  /\ pc \in {"returned", "raised"} => handles = {}

\* C10 as amended: no handle is open between construction and make_signed
\* nor once either is over, by return or by exception; make_signed's write
\* handle is open only while its read handle on the source is open, and
\* never on the source's path.
C10_ScopedHandles ==
  /\ pc \in {"new", "constructed", "returned", "raised"} => handles = {}
  /\ \A h \in handles :
       h.mode = "w" => /\ ReadHandle(obj.inpath) \in handles
                       /\ h.path # obj.inpath
  /\ pc \in {"ms_rsa", "ms_copy", "ms_manifest", "ms_sf", "ms_ids"} =>
       handles = {ReadHandle(obj.inpath), WriteHandle(args.outpath)}

\* C10 witness: in the copy loop of make_signed both handles are open.
C10_Witness ==
  /\ pc = "ms_copy"
  /\ handles = {ReadHandle(InPath), WriteHandle(OutPath)}
  /\ idx = 2

\* C6 as stated: two different names never have equal keys, and exactly
\* one of them is less than the other; the order is transitive.
C6_StrictTotalOrder ==
  kkeys # <<>> =>
    /\ \A i, j \in 1..3 :
         knames[i] # knames[j] =>
           /\ kkeys[i] # kkeys[j]
           /\ KeyLess(kkeys[i], kkeys[j]) # KeyLess(kkeys[j], kkeys[i])
    /\ (KeyLess(kkeys[1], kkeys[2]) /\ KeyLess(kkeys[2], kkeys[3]))
         => KeyLess(kkeys[1], kkeys[3])

\* C6 as amended: of two keys exactly one is the case: the first is less,
\* they are equal, the second is less; the order is transitive; and two
\* names have equal keys exactly when they are in one bucket and have the
\* same case-folded directory and base name, as names that differ in
\* letter case only do.
C6_TotalPreorder ==
  kkeys # <<>> =>
    /\ \A i, j \in 1..3 :
         /\ Cardinality({ r \in {"less", "equal", "greater"} :
                \/ r = "less" /\ KeyLess(kkeys[i], kkeys[j])
                \/ r = "equal" /\ kkeys[i] = kkeys[j]
                \/ r = "greater" /\ KeyLess(kkeys[j], kkeys[i]) }) = 1
         /\ kkeys[i] = kkeys[j] <=>
              /\ Bucket(knames[i]) = Bucket(knames[j])
              /\ FoldedDir(knames[i]) = FoldedDir(knames[j])
              /\ FoldedBase(knames[i]) = FoldedBase(knames[j])
         /\ (Lower(knames[i]) = Lower(knames[j])
               /\ Bucket(knames[i]) = Bucket(knames[j]))
              => kkeys[i] = kkeys[j]
    /\ (KeyLess(kkeys[1], kkeys[2]) /\ KeyLess(kkeys[2], kkeys[3]))
         => KeyLess(kkeys[1], kkeys[3])

\* C6 witness: the keys of two names that differ in letter case only, and
\* of a third name, have been computed, and the two are equal.
C6_Witness ==
  /\ kkeys # <<>>
  /\ knames[1] = <<"b", ".", "j", "s">>
  /\ knames[2] = <<"B", ".", "j", "s">>
  /\ knames[3] = <<"a", "/", "c", ".", "j", "s">>
  /\ kkeys[1] = kkeys[2]

\* The bytes of the Name line of the Section serialized, and the bytes of
\* its folded form in the text: the text up to the first line break that
\* no space follows.
NameLineBytes == EncodeUtf8(<<"N", "a", "m", "e", ":", " ">> \o fsection.name)

FoldedBytes ==
  LET out == EncodeUtf8(ftext)
      p   == CHOOSE p \in 1..Len(out) :
               /\ out[p] = "\n" /\ (p = Len(out) \/ out[p + 1] # " ")
               /\ \A q \in 1..(p - 1) :
                    ~(out[q] = "\n" /\ out[q + 1] # " ")
  IN  SubSeq(out, 1, p - 1)

\* The lengths of the physical lines of some bytes.
LineLengths(b) ==
  LET breaks == SelectSeq([ i \in 1..Len(b) |-> i ], LAMBDA i : b[i] = "\n")
      ends   == breaks \o <<Len(b) + 1>>
  IN  [ k \in 1..Len(ends) |->
          ends[k] - (IF k = 1 THEN 0 ELSE ends[k - 1]) - 1 ]

\* Some bytes with every line break that a space follows removed, and the
\* space with it.
Unfolded(b) ==
  LET kept == SelectSeq([ i \in 1..Len(b) |-> i ],
                LAMBDA i : /\ ~(b[i] = "\n" /\ i < Len(b) /\ b[i + 1] = " ")
                           /\ ~(b[i] = " " /\ i > 1 /\ b[i - 1] = "\n"))
  IN  [ k \in 1..Len(kept) |-> b[kept[k]] ]

\* C8: the Name line is folded by its UTF-8 byte length: a line of at
\* most 72 bytes is not folded; of a longer one the first physical line
\* holds 72 bytes, each following one a space and at most 72 bytes more;
\* and unfolding gives the bytes of the line back.
C8_FoldByBytes ==
  ftext # <<>> =>
    LET lens == LineLengths(FoldedBytes)
    IN  /\ Unfolded(FoldedBytes) = NameLineBytes
        /\ Len(NameLineBytes) <= 72 => FoldedBytes = NameLineBytes
        /\ Len(NameLineBytes) > 72 =>
             /\ lens[1] = 72
             /\ SubSeq(FoldedBytes, 1, 72) = SubSeq(NameLineBytes, 1, 72)
             /\ \A k \in 2..Len(lens) : lens[k] >= 2 /\ lens[k] <= 73

=============================================================================
